---- MODULE Spec2Model ----
(***************************************************************************)
(* A model of quant_based_fundamental_analysis.py: the FundamentalAnalyzer *)
(* (ratios, Piotroski F-Score, historical growth, CAPM, simple DCF) and    *)
(* the __main__ pipeline that chains them.                                 *)
(*                                                                         *)
(* Values.  Every Python value the engines handle is a record              *)
(*   [k, n, d]   k = "num"  the number n/d (d > 0)                         *)
(*               k = "nan" / "inf" / "ninf"  numpy's NaN, +inf, -inf       *)
(*               k = "none" Python None (Series.get / dict.get of a key    *)
(*                          that is not there)                             *)
(*               k = "na"   the overview string 'N/A'                      *)
(*               k = "text" any other overview string float() rejects      *)
(* Statement cells are numpy scalars (pd.to_numeric(errors='coerce') makes *)
(* an unparsable cell NaN), so a division by zero gives inf/nan and never  *)
(* raises.  Ratios of statement cells are kept as exact fractions; the     *)
(* growth, CAPM and DCF floats are fixed-point numbers with denominator    *)
(* Scale, rounded toward minus infinity after every operation.             *)
(***************************************************************************)
EXTENDS Integers, Sequences, FiniteSets, TLC

\* ------------------------------------------------------------------ bounds
MaxRows == 7        \* most annual reports a statement table holds

\* ------------------------------------------------------- program constants
Scale == 100 * 100              \* fixed-point denominator of the rate floats
RISK_FREE_RATE == 411           \* 0.0411
EXPECTED_MARKET_RETURN == 900   \* 0.09
TERMINAL_GROWTH_RATE == 200     \* 0.02
FALLBACK_GROWTH == 800          \* 0.08
FALLBACK_WACC == 900            \* 0.09
MAIN_YEARS == 5                 \* calculate_historical_growth(years=5)
DCF_YEARS == 5                  \* range(1, 6)
LOOKUP_YEARS == 5               \* the key 'Revenue_CAGR_5Y' main reads

\* ------------------------------------------------------------------ values
None == [k |-> "none", n |-> 0, d |-> 1]
NaN == [k |-> "nan",  n |-> 0, d |-> 1]
Inf == [k |-> "inf",  n |-> 0, d |-> 1]
NInf == [k |-> "ninf", n |-> 0, d |-> 1]
NA == [k |-> "na",   n |-> 0, d |-> 1]
Text == [k |-> "text", n |-> 0, d |-> 1]
Num(i) == [k |-> "num", n |-> i, d |-> 1]
Frac(i, j) == [k |-> "num", n |-> i, d |-> j]
Fx(i) == [k |-> "num", n |-> i, d |-> Scale]

IsNone(v) == v.k = "none"
IsFinite(v) == v.k = "num"

\* sign of a float: -1, 0, 1 (NaN has none: callers test for it first)
Sgn(v) ==
    CASE v.k = "inf" -> 1
      [] v.k = "ninf" -> -1
      [] v.k = "num" -> (IF v.n > 0 THEN 1 ELSE IF v.n < 0 THEN -1 ELSE 0)
      [] OTHER -> 0

SignedInf(s) == IF s > 0 THEN Inf ELSE NInf

\* Python truthiness: None and zero are falsy, NaN and the infinities truthy
Truthy(v) == ~IsNone(v) /\ ~(v.k = "num" /\ v.n = 0)

\* a < b on floats; any comparison with NaN is False
Lt(a, b) ==
    IF a.k = "nan" \/ b.k = "nan" THEN FALSE
    ELSE IF a.k = "num" /\ b.k = "num"
         THEN (IF a.d = b.d THEN a.n < b.n ELSE a.n * b.d < b.n * a.d)
    ELSE IF a.k = b.k THEN FALSE
    ELSE a.k = "ninf" \/ b.k = "inf"

Gt(a, b) == Lt(b, a)

\* a == b on floats
Eq(a, b) ==
    IF a.k = "nan" \/ b.k = "nan" THEN FALSE
    ELSE IF a.k = "num" /\ b.k = "num" THEN a.n * b.d = b.n * a.d
    ELSE a.k = b.k

Le(a, b) == Lt(a, b) \/ Eq(a, b)

\* ------------------------------------------------ exact fraction arithmetic
Neg(a) ==
    CASE a.k = "num" -> Frac(0 - a.n, a.d)
      [] a.k = "inf" -> NInf
      [] a.k = "ninf" -> Inf
      [] OTHER -> a

Abs(a) == IF Sgn(a) < 0 THEN Neg(a) ELSE a

Add(a, b) ==
    IF a.k = "nan" \/ b.k = "nan" THEN NaN
    ELSE IF a.k = "num" /\ b.k = "num"
         THEN (IF a.d = b.d THEN Frac(a.n + b.n, a.d)
               ELSE Frac(a.n * b.d + b.n * a.d, a.d * b.d))
    ELSE IF a.k = "num" THEN b
    ELSE IF b.k = "num" THEN a
    ELSE IF a.k = b.k THEN a
    ELSE NaN

\* numpy true division: x/0 is +-inf, 0/0 is NaN, no exception
Div(a, b) ==
    IF a.k = "nan" \/ b.k = "nan" THEN NaN
    ELSE IF a.k = "num" /\ b.k = "num"
         THEN (IF b.n = 0
               THEN (IF a.n = 0 THEN NaN ELSE SignedInf(Sgn(a)))
               ELSE IF b.n > 0 THEN Frac(a.n * b.d, a.d * b.n)
               ELSE Frac(0 - a.n * b.d, a.d * (0 - b.n)))
    ELSE IF a.k = "num" THEN Frac(0, 1)
    ELSE IF b.k = "num"
         THEN SignedInf(Sgn(a) * (IF Sgn(b) < 0 THEN -1 ELSE 1))
    ELSE NaN

\* ------------------------------------------------- fixed-point arithmetic
\* the scaled integer of a number (an integer cell i becomes i * Scale)
FxV(v) == IF v.d = Scale THEN v.n ELSE (v.n * Scale) \div v.d

\* floor(a * b / Scale), split so that no partial product leaves 32 bits
FxMulI(a, b) ==
    LET ah == a \div Scale
        al == a % Scale
        bh == b \div Scale
        bl == b % Scale
    IN  ah * bh * Scale + ah * bl + al * bh + ((al * bl) \div Scale)

\* floor(r * s / b) for 0 <= r < b and s a power of ten, digit by digit
RECURSIVE LongDiv(_, _, _)
LongDiv(r, b, s) ==
    IF s = 1 THEN 0
    ELSE ((r * 10) \div b) * (s \div 10) + LongDiv((r * 10) % b, b, s \div 10)

\* floor(a * Scale / b), b # 0
FxDivI(a, b) ==
    LET aa == IF b < 0 THEN 0 - a ELSE a
        bb == IF b < 0 THEN 0 - b ELSE b
    IN  (aa \div bb) * Scale + LongDiv(aa % bb, bb, Scale)

AddF(a, b) ==
    IF a.k = "num" /\ b.k = "num" THEN Fx(FxV(a) + FxV(b)) ELSE Add(a, b)

SubF(a, b) == AddF(a, Neg(b))

MulF(a, b) ==
    IF a.k = "nan" \/ b.k = "nan" THEN NaN
    ELSE IF a.k = "num" /\ b.k = "num" THEN Fx(FxMulI(FxV(a), FxV(b)))
    ELSE IF Sgn(a) = 0 \/ Sgn(b) = 0 THEN NaN
    ELSE SignedInf(Sgn(a) * Sgn(b))

DivF(a, b) ==
    IF a.k = "num" /\ b.k = "num" /\ b.n # 0
    THEN Fx(FxDivI(FxV(a), FxV(b)))
    ELSE LET q == Div(a, b) IN IF q.k = "num" THEN Fx(0) ELSE q

\* a ** i for an integer i >= 0
RECURSIVE PowF(_, _)
PowF(a, i) == IF i = 0 THEN Fx(Scale) ELSE MulF(PowF(a, i - 1), a)

\* r ** p <= q on scaled integers, r >= 0, q > 0, p >= 1; stops as soon as
\* a growing power has passed q
RECURSIVE PowLe(_, _, _, _)
PowLe(acc, r, p, q) ==
    IF p = 0 THEN acc <= q
    ELSE IF acc > q /\ r >= Scale THEN FALSE
    ELSE PowLe(FxMulI(acc, r), r, p - 1, q)

\* the largest scaled r with r ** p <= q, by bisection on lo <= r < hi
RECURSIVE Bisect(_, _, _, _)
Bisect(lo, hi, p, q) ==
    IF hi - lo <= 1 THEN lo
    ELSE LET mid == (lo + hi) \div 2
         IN  IF PowLe(Scale, mid, p, q) THEN Bisect(mid, hi, p, q)
             ELSE Bisect(lo, mid, p, q)

RootI(q, p) == Bisect(0, (IF q > Scale THEN q ELSE Scale) + 1, p, q)

\* x ** (1 / periods) as numpy computes it for a float64 x, periods # 0:
\* a negative base has a real power only for the exponents 1.0 and -1.0,
\* and 0.0 to a negative power is inf
PowInv(x, periods) ==
    LET p == IF periods < 0 THEN 0 - periods ELSE periods
        root ==
            IF x.k # "num" THEN x
            ELSE IF x.n = 0 THEN Fx(0)
            ELSE IF x.n < 0 THEN (IF p = 1 THEN Fx(FxV(x)) ELSE NaN)
            ELSE Fx(RootI(FxV(x), p))
    IN  IF periods > 0 THEN root ELSE DivF(Fx(Scale), root)

\* _calculate_cagr(start_value, end_value, periods)
calculate_cagr(start_value, end_value, periods) ==
    IF IsNone(start_value) \/ IsNone(end_value)
       \/ Le(start_value, Num(0)) \/ periods = 0
    THEN None
    ELSE SubF(PowInv(DivF(end_value, start_value), periods), Fx(Scale))

\* ------------------------------------------------------------ the inputs
VARIABLES
    mode,              \* "main": the __main__ script; "api": one method call
    pc,                \* the next step
    overview,          \* [ok, f]: ok = FALSE is None, f the fetched mapping
    income_statement,  \* the DataFrames, oldest row first; <<>> is None
    balance_sheet,
    cash_flow,
    ratios,            \* self.ratios: metric key -> value
    years_arg,         \* the lookback handed to calculate_historical_growth
    cost_of_equity,    \* what calculate_cost_of_equity_capm returned
    fscore_ret,        \* what calculate_piotroski_f_score returned
    dcf_args,          \* [called, growth_rate, wacc, terminal_growth]
    dcf_ret,           \* what run_simple_dcf returned
    called             \* the methods called so far (history)

vars == <<mode, pc, overview, income_statement, balance_sheet, cash_flow,
          ratios, years_arg, cost_of_equity, fscore_ret, dcf_args, dcf_ret,
          called>>

IncomeCols == {"netIncome", "totalRevenue", "grossProfit"}
BalanceCols == {"totalAssets", "longTermDebt", "shortTermDebt",
                "totalCurrentAssets", "totalCurrentLiabilities", "commonStock",
                "totalShareholderEquity", "cashAndCashEquivalentsAtCarryingValue"}
CashCols == {"operatingCashflow", "capitalExpenditures"}
OverviewKeys == {"PERatio", "PriceToBookRatio", "PriceToSalesRatioTTM",
                 "DividendYield", "Beta", "SharesOutstanding",
                 "MarketCapitalization"}
Tabs == {"income", "balance", "cash"}
Cols(tab) ==
    CASE tab = "income" -> IncomeCols
      [] tab = "balance" -> BalanceCols
      [] tab = "cash" -> CashCols

\* Two companies the provider may report, row i of n (1 the oldest): a
\* strong one, improving on every F-Score test, and a weak one, worsening
\* on every test, with no debt.
BaseRow(profile, tab, i) ==
    IF profile = "strong"
    THEN CASE tab = "income" ->
                [netIncome |-> Num(10 + 2 * i), totalRevenue |-> Num(100 + 10 * i),
                 grossProfit |-> Num(40 + 6 * i)]
           [] tab = "balance" ->
                [totalAssets |-> Num(200 + 10 * i), longTermDebt |-> Num(50 - 2 * i),
                 shortTermDebt |-> Num(10), totalCurrentAssets |-> Num(60 + 5 * i),
                 totalCurrentLiabilities |-> Num(30), commonStock |-> Num(40),
                 totalShareholderEquity |-> Num(100 + 5 * i),
                 cashAndCashEquivalentsAtCarryingValue |-> Num(15)]
           [] tab = "cash" ->
                [operatingCashflow |-> Num(20 + 2 * i),
                 capitalExpenditures |-> Num(-5)]
    ELSE CASE tab = "income" ->
                [netIncome |-> Num(-3 - i), totalRevenue |-> Num(100 - 5 * i),
                 grossProfit |-> Num(30 - 3 * i)]
           [] tab = "balance" ->
                [totalAssets |-> Num(200), longTermDebt |-> Num(0),
                 shortTermDebt |-> Num(0), totalCurrentAssets |-> Num(40 - i),
                 totalCurrentLiabilities |-> Num(40), commonStock |-> Num(40 + i),
                 totalShareholderEquity |-> Num(50 - i),
                 cashAndCashEquivalentsAtCarryingValue |-> Num(5)]
           [] tab = "cash" ->
                [operatingCashflow |-> Num(-10 - i),
                 capitalExpenditures |-> Num(5)]

BaseOverview ==
    [PERatio |-> Frac(51, 2), PriceToBookRatio |-> Num(8),
     PriceToSalesRatioTTM |-> Frac(13, 2), DividendYield |-> Fx(50),
     Beta |-> Fx(12000), SharesOutstanding |-> Num(10),
     MarketCapitalization |-> Num(1000)]

\* what one statement cell may hold instead: an unparsable entry (NaN), a
\* zero, a negative, a small and a large amount
CellVals == {NaN, Num(0), Num(-7), Num(3), Num(250)}

\* what one overview entry may hold instead (None: the key is not there)
OverviewVals(key) ==
    {None, NA, Text}
    \cup (CASE key = "Beta" -> {Fx(0), Fx(0 - Scale), Fx(5000), NaN}
            [] key = "SharesOutstanding" -> {Num(0), Frac(3, 2)}
            [] key = "MarketCapitalization" -> {Num(0)}
            [] OTHER -> {Num(0), Num(-4)})

\* One departure of the fetched data from the base company ("nobeta": the
\* provider has neither a beta nor a market capitalization for the company)
NoFault == [kind |-> "none", tab |-> "", row |-> 0, col |-> "", v |-> None]
Faults(n) ==
    {NoFault}
    \cup {[kind |-> "cell", tab |-> t, row |-> i, col |-> c, v |-> x] :
            t \in Tabs, i \in 1..n, c \in IncomeCols \cup BalanceCols \cup CashCols,
            x \in CellVals}
    \cup {[kind |-> "dropcol", tab |-> t, row |-> 0, col |-> c, v |-> None] :
            t \in Tabs, c \in IncomeCols \cup BalanceCols \cup CashCols}
    \cup {[kind |-> "rows", tab |-> t, row |-> m, col |-> "", v |-> None] :
            t \in Tabs, m \in 0..(n - 1)}
    \cup {[kind |-> "overview", tab |-> "", row |-> 0, col |-> c, v |-> x] :
            c \in OverviewKeys, x \in {None, NA, Text, Num(0), Num(-4), NaN,
                                       Frac(3, 2), Fx(0), Fx(0 - Scale), Fx(5000)}}
    \cup {[kind |-> "nobeta", tab |-> "", row |-> 0, col |-> "Beta", v |-> x] :
            x \in {None, NA, Text}}
    \cup {[kind |-> "nooverview", tab |-> "", row |-> 0, col |-> "", v |-> None]}

WellFormed(f) ==
    /\ f.kind \in {"cell", "dropcol"} => f.col \in Cols(f.tab)
    /\ f.kind = "overview" => f.v \in OverviewVals(f.col)

DropCol(row, col) == [c \in (DOMAIN row) \ {col} |-> row[c]]

\* pd.DataFrame(reports) ... sort_index(): the table of n annual reports
FetchTable(profile, tab, n, f) ==
    LET base == [i \in 1..n |-> BaseRow(profile, tab, i)]
    IN  IF f.tab # tab THEN base
        ELSE CASE f.kind = "cell" -> [base EXCEPT ![f.row][f.col] = f.v]
               [] f.kind = "dropcol" -> [i \in 1..n |-> DropCol(base[i], f.col)]
               [] f.kind = "rows" -> SubSeq(base, n - f.row + 1, n)
               [] OTHER -> base

\* get_company_overview: the mapping, or None
FetchOverview(f) ==
    CASE f.kind = "nooverview" -> [ok |-> FALSE, f |-> BaseOverview]
      [] f.kind = "nobeta" ->
            LET ov == [BaseOverview EXCEPT !.MarketCapitalization = Text]
            IN  [ok |-> TRUE,
                 f |-> IF IsNone(f.v) THEN DropCol(ov, "Beta")
                       ELSE [ov EXCEPT !.Beta = f.v]]
      [] f.kind = "overview" /\ IsNone(f.v) ->
            [ok |-> TRUE, f |-> DropCol(BaseOverview, f.col)]
      [] f.kind = "overview" ->
            [ok |-> TRUE, f |-> [BaseOverview EXCEPT ![f.col] = f.v]]
      [] OTHER -> [ok |-> TRUE, f |-> BaseOverview]

\* Series.get(key) / dict.get(key): None when the key is not there
Get(row, col) == IF col \in DOMAIN row THEN row[col] ELSE None
\* Series.get(key, default)
GetD(row, col, default) == IF col \in DOMAIN row THEN row[col] ELSE default
\* DataFrame.iloc[-j]
Last(table, j) == table[Len(table) - j + 1]

\* ------------------------------------------------------------ self.ratios
Key(name) == [name |-> name, n |-> 0]
\* f'{name}_{k}Y'
KeyY(name, k) == [name |-> name, n |-> k]
NoRatios == [x \in {} |-> None]
\* self.ratios[key] = v
Put(r, key, v) == (key :> v) @@ r
Has(r, key) == key \in DOMAIN r
\* self.ratios.get(key)
RatioGet(r, key) == IF key \in DOMAIN r THEN r[key] ELSE None

\* ------------------------------------------------------- calculate_ratios
\* float(s) raises unless s is a numeric string (nan is one)
FloatRaises(s) == s.k \in {"none", "na", "text"}

OverviewRatios ==
    << <<"PERatio", "P/E_Ratio">>, <<"PriceToBookRatio", "P/B_Ratio">>,
       <<"PriceToSalesRatioTTM", "P/S_Ratio">>,
       <<"DividendYield", "Dividend_Yield">> >>

\* lines 130-133 from the i-th assignment on: the first float() that raises
\* leaves the try block; [ok, r] is whether none raised and the mapping so far
RECURSIVE ValuationRatios(_, _, _)
ValuationRatios(ov, r, i) ==
    IF i > Len(OverviewRatios) THEN [ok |-> TRUE, r |-> r]
    ELSE LET s == GetD(ov.f, OverviewRatios[i][1], NA)
         IN  IF FloatRaises(s) THEN [ok |-> FALSE, r |-> r]
             ELSE ValuationRatios(ov, Put(r, Key(OverviewRatios[i][2]), s), i + 1)

\* lines 143-144
MarginRecorded(net_income, total_revenue) ==
    Truthy(net_income) /\ Truthy(total_revenue)

\* lines 146-147
RoeRecorded(net_income, total_shareholder_equity) ==
    Truthy(net_income) /\ Truthy(total_shareholder_equity)

\* line 150
TotalDebt(latest_balance) ==
    Add(GetD(latest_balance, "longTermDebt", Num(0)),
        GetD(latest_balance, "shortTermDebt", Num(0)))

\* lines 152-153
DebtToEquityRecorded(total_debt, total_shareholder_equity) ==
    Truthy(total_debt) /\ Truthy(total_shareholder_equity)

\* lines 136-153
StatementRatios(inc, bal, r) ==
    LET latest_income == Last(inc, 1)
        latest_balance == Last(bal, 1)
        net_income == Get(latest_income, "netIncome")
        total_revenue == Get(latest_income, "totalRevenue")
        total_shareholder_equity == Get(latest_balance, "totalShareholderEquity")
        total_debt == TotalDebt(latest_balance)
        r1 == IF MarginRecorded(net_income, total_revenue)
              THEN Put(r, Key("Net_Profit_Margin"), Div(net_income, total_revenue))
              ELSE r
        r2 == IF RoeRecorded(net_income, total_shareholder_equity)
              THEN Put(r1, Key("Return_on_Equity (ROE)"),
                       Div(net_income, total_shareholder_equity))
              ELSE r1
    IN  IF DebtToEquityRecorded(total_debt, total_shareholder_equity)
        THEN Put(r2, Key("Debt_to_Equity"),
                 Div(total_debt, total_shareholder_equity))
        ELSE r2

\* calculate_ratios: the mapping it leaves (it returns nothing, raises nothing)
calculate_ratios(ov, inc, bal, r) ==
    IF ~ov.ok \/ inc = <<>> \/ bal = <<>> THEN r
    ELSE LET v == ValuationRatios(ov, r, 1)
         IN  IF v.ok THEN StatementRatios(inc, bal, v.r) ELSE v.r

\* -------------------------------------------- calculate_piotroski_f_score
\* an arithmetic operator or an ordering comparison with None: TypeError
NoneOperand(a, b) == IsNone(a) \/ IsNone(b)

\* lines 168-170
EnoughHistory(inc, bal, cf) == Len(inc) >= 3 /\ Len(bal) >= 3 /\ Len(cf) >= 1

\* each test is [raises, point]
\* 1. lines 189-191
FTest1(net_income_T) ==
    [raises |-> FALSE,
     point |-> Truthy(net_income_T) /\ Gt(net_income_T, Num(0))]

\* 2. lines 194-196
FTest2(op_cash_flow_T) ==
    [raises |-> FALSE,
     point |-> Truthy(op_cash_flow_T) /\ Gt(op_cash_flow_T, Num(0))]

\* lines 199-200
AvgAssets(bs_a, bs_b) ==
    Div(Add(Get(bs_a, "totalAssets"), Get(bs_b, "totalAssets")), Num(2))

\* 3. lines 202-206, the averages already computed
FTest3(net_income_T, net_income_T_1, avg_assets_T, avg_assets_T_1) ==
    IF Gt(avg_assets_T, Num(0)) /\ Gt(avg_assets_T_1, Num(0))
    THEN [raises |-> IsNone(net_income_T) \/ IsNone(net_income_T_1),
          point |-> Gt(Div(net_income_T, avg_assets_T),
                       Div(net_income_T_1, avg_assets_T_1))]
    ELSE [raises |-> FALSE, point |-> FALSE]

\* 4. lines 209-210
FTest4(op_cash_flow_T, net_income_T) ==
    [raises |-> FALSE,
     point |-> Truthy(op_cash_flow_T) /\ Truthy(net_income_T)
               /\ Gt(op_cash_flow_T, net_income_T)]

\* 5. lines 215-218
FTest5(bs_T, bs_T_1) ==
    LET a == Get(bs_T, "longTermDebt")
        b == Get(bs_T, "totalAssets")
        c == Get(bs_T_1, "longTermDebt")
        d == Get(bs_T_1, "totalAssets")
    IN  [raises |-> NoneOperand(a, b) \/ NoneOperand(c, d),
         point |-> Lt(Div(a, b), Div(c, d))]

\* 6. lines 221-224
FTest6(bs_T, bs_T_1) ==
    LET a == Get(bs_T, "totalCurrentAssets")
        b == Get(bs_T, "totalCurrentLiabilities")
        c == Get(bs_T_1, "totalCurrentAssets")
        d == Get(bs_T_1, "totalCurrentLiabilities")
    IN  [raises |-> NoneOperand(a, b) \/ NoneOperand(c, d),
         point |-> Gt(Div(a, b), Div(c, d))]

\* 7. lines 227-230
FTest7(shares_T, shares_T_1) ==
    [raises |-> NoneOperand(shares_T, shares_T_1),
     point |-> Le(shares_T, shares_T_1)]

\* 8. lines 235-238
FTest8(inc_T, inc_T_1) ==
    LET a == Get(inc_T, "grossProfit")
        b == Get(inc_T, "totalRevenue")
        c == Get(inc_T_1, "grossProfit")
        d == Get(inc_T_1, "totalRevenue")
    IN  [raises |-> NoneOperand(a, b) \/ NoneOperand(c, d),
         point |-> Gt(Div(a, b), Div(c, d))]

\* 9. lines 241-244
FTest9(inc_T, inc_T_1, avg_assets_T, avg_assets_T_1) ==
    LET a == Get(inc_T, "totalRevenue")
        c == Get(inc_T_1, "totalRevenue")
    IN  [raises |-> IsNone(a) \/ IsNone(c),
         point |-> Gt(Div(a, avg_assets_T), Div(c, avg_assets_T_1))]

\* a failed test taking a point away instead of adding none
PointsPenalised(t) == IF t.point THEN 1 ELSE -1

\* score += 1
Points(t) == IF t.point THEN 1 ELSE 0

\* lines 173-252, preconditions met: [raised, score]; an exception anywhere
\* in the try block is caught and nothing has been recorded by then
FScore(inc, bal, cf) ==
    LET inc_T == Last(inc, 1)
        inc_T_1 == Last(inc, 2)
        bs_T == Last(bal, 1)
        bs_T_1 == Last(bal, 2)
        bs_T_2 == Last(bal, 3)
        cf_T == Last(cf, 1)
        net_income_T == Get(inc_T, "netIncome")
        op_cash_flow_T == Get(cf_T, "operatingCashflow")
        assets_raise == IsNone(Get(bs_T, "totalAssets"))
                        \/ IsNone(Get(bs_T_1, "totalAssets"))
                        \/ IsNone(Get(bs_T_2, "totalAssets"))
        avg_assets_T == AvgAssets(bs_T, bs_T_1)
        avg_assets_T_1 == AvgAssets(bs_T_1, bs_T_2)
        t1 == FTest1(net_income_T)
        t2 == FTest2(op_cash_flow_T)
        t3 == FTest3(net_income_T, Get(inc_T_1, "netIncome"),
                     avg_assets_T, avg_assets_T_1)
        t4 == FTest4(op_cash_flow_T, net_income_T)
        t5 == FTest5(bs_T, bs_T_1)
        t6 == FTest6(bs_T, bs_T_1)
        t7 == FTest7(Get(bs_T, "commonStock"), Get(bs_T_1, "commonStock"))
        t8 == FTest8(inc_T, inc_T_1)
        t9 == FTest9(inc_T, inc_T_1, avg_assets_T, avg_assets_T_1)
    IN  IF assets_raise THEN [raised |-> TRUE, score |-> 0]
        ELSE IF t3.raises \/ t5.raises \/ t6.raises \/ t7.raises
                \/ t8.raises \/ t9.raises
        THEN [raised |-> TRUE, score |-> 0]
        ELSE [raised |-> FALSE,
              score |-> Points(t1) + Points(t2) + Points(t3) + Points(t4)
                        + Points(t5) + Points(t6) + Points(t7) + Points(t8)
                        + Points(t9)]

\* calculate_piotroski_f_score: [ret, r], ret the returned score or None
calculate_piotroski_f_score(inc, bal, cf, r) ==
    IF inc = <<>> \/ bal = <<>> \/ cf = <<>> THEN [ret |-> None, r |-> r]
    ELSE IF ~EnoughHistory(inc, bal, cf) THEN [ret |-> None, r |-> r]
    ELSE LET s == FScore(inc, bal, cf)
         IN  IF s.raised THEN [ret |-> None, r |-> r]
             ELSE [ret |-> Num(s.score),
                   r |-> Put(r, Key("Piotroski_F_Score"), Num(s.score))]

\* -------------------------------------------- calculate_historical_growth
Min(a, b) == IF a < b THEN a ELSE b

\* line 265
ActualPeriods(years, inc) == Min(years, Len(inc) - 1)

\* the row DataFrame.iloc[-1 - actual_periods] reads, 1 the oldest, or 0
\* when the position is out of bounds (IndexError)
StartRow(inc, actual_periods) ==
    LET idx == -1 - actual_periods
        n == Len(inc)
    IN  IF idx < 0 THEN (IF idx >= 0 - n THEN n + idx + 1 ELSE 0)
        ELSE (IF idx <= n - 1 THEN idx + 1 ELSE 0)

\* calculate_historical_growth(years): the mapping it leaves
calculate_historical_growth(inc, years, r) ==
    IF inc = <<>> \/ Len(inc) < 2 THEN r
    ELSE LET actual_periods == ActualPeriods(years, inc)
             at == StartRow(inc, actual_periods)
         IN  IF actual_periods = 0 THEN r
             ELSE IF at = 0 THEN r
             ELSE LET start_report == inc[at]
                      end_report == Last(inc, 1)
                      revenue_cagr ==
                          calculate_cagr(Get(start_report, "totalRevenue"),
                                         Get(end_report, "totalRevenue"),
                                         actual_periods)
                      net_income_cagr ==
                          calculate_cagr(Get(start_report, "netIncome"),
                                         Get(end_report, "netIncome"),
                                         actual_periods)
                  IN  Put(Put(r, KeyY("Revenue_CAGR", actual_periods), revenue_cagr),
                          KeyY("Net_Income_CAGR", actual_periods), net_income_cagr)

\* ------------------------------------------ calculate_cost_of_equity_capm
\* line 313
Capm(risk_free_rate, beta, market_return) ==
    AddF(risk_free_rate, MulF(beta, SubF(market_return, risk_free_rate)))

\* [ret, r]: the returned cost of equity or None, and the mapping it leaves
calculate_cost_of_equity_capm(ov, risk_free_rate, market_return, r) ==
    IF ~ov.ok THEN [ret |-> None, r |-> r]
    ELSE LET beta_str == Get(ov.f, "Beta")
         IN  IF IsNone(beta_str) \/ beta_str.k = "na" THEN [ret |-> None, r |-> r]
             ELSE IF FloatRaises(beta_str) THEN [ret |-> None, r |-> r]
             ELSE LET k_e == Capm(risk_free_rate, beta_str, market_return)
                  IN  [ret |-> k_e, r |-> Put(r, Key("Cost_of_Equity (CAPM)"), k_e)]

\* --------------------------------------------------------- run_simple_dcf
NoResult == [ret |-> "None", implied_share_price |-> None,
             equity_value |-> None, enterprise_value |-> None]
NotCalled == [ret |-> "not called", implied_share_price |-> None,
              equity_value |-> None, enterprise_value |-> None]

\* line 352: the FCF of year i
ProjectedFcf(last_fcf, growth_rate, i) ==
    MulF(last_fcf, PowF(AddF(Fx(Scale), growth_rate), i))

\* line 356
TerminalValue(fcf_last, wacc, terminal_growth) ==
    DivF(MulF(fcf_last, AddF(Fx(Scale), terminal_growth)),
         SubF(wacc, terminal_growth))

\* lines 359-362: sum(discounted_values) over the years 1..i
RECURSIVE SumDiscounted(_, _, _, _)
SumDiscounted(last_fcf, growth_rate, wacc, i) ==
    IF i = 0 THEN Fx(0)
    ELSE AddF(SumDiscounted(last_fcf, growth_rate, wacc, i - 1),
              DivF(ProjectedFcf(last_fcf, growth_rate, i),
                   PowF(AddF(Fx(Scale), wacc), i)))

\* lines 356-367
EnterpriseValue(last_fcf, growth_rate, wacc, terminal_growth) ==
    LET terminal_value ==
            TerminalValue(ProjectedFcf(last_fcf, growth_rate, DCF_YEARS),
                          wacc, terminal_growth)
        d_terminal_value ==
            DivF(terminal_value, PowF(AddF(Fx(Scale), wacc), DCF_YEARS))
    IN  AddF(SumDiscounted(last_fcf, growth_rate, wacc, DCF_YEARS),
             d_terminal_value)

\* lines 371-373
NetDebt(latest_balance) ==
    SubF(TotalDebt(latest_balance),
         GetD(latest_balance, "cashAndCashEquivalentsAtCarryingValue", Num(0)))

\* the share count tested for None alone, a zero count let through
NoSharesMissingOnly(shares_outstanding) ==
    IsNone(shares_outstanding)
    \/ ~(shares_outstanding.k = "num" /\ shares_outstanding.d = 1)

\* line 378: no share count to divide by; int() of a string that is not an
\* integer literal raises ValueError, which the handler turns into None
NoShares(shares_outstanding) ==
    IsNone(shares_outstanding)
    \/ ~(shares_outstanding.k = "num" /\ shares_outstanding.d = 1)
    \/ shares_outstanding.n = 0

\* run_simple_dcf(growth_rate, wacc, terminal_growth): the returned mapping
run_simple_dcf(ov, bal, cf, growth_rate, wacc, terminal_growth) ==
    IF cf = <<>> \/ bal = <<>> \/ ~ov.ok THEN NoResult
    ELSE LET latest_cf == Last(cf, 1)
             op_cash_flow == Get(latest_cf, "operatingCashflow")
             cap_ex == Get(latest_cf, "capitalExpenditures")
         IN  IF IsNone(op_cash_flow) \/ IsNone(cap_ex) THEN NoResult
             ELSE LET last_fcf == SubF(op_cash_flow, Abs(cap_ex))
                      enterprise_value ==
                          EnterpriseValue(last_fcf, growth_rate, wacc, terminal_growth)
                      equity_value ==
                          SubF(enterprise_value, NetDebt(Last(bal, 1)))
                      shares_outstanding == Get(ov.f, "SharesOutstanding")
                  IN  IF NoShares(shares_outstanding) THEN NoResult
                      ELSE [ret |-> "dict",
                            implied_share_price |->
                                DivF(equity_value, shares_outstanding),
                            equity_value |-> equity_value,
                            enterprise_value |-> enterprise_value]

\* -------------------------------------------------------- display_results
\* line 416: int() of a market capitalisation that is not an integer literal
\* raises ValueError, and nothing catches it
DisplayRaises(ov) ==
    /\ ov.ok
    /\ LET m == GetD(ov.f, "MarketCapitalization", Num(0))
       IN  ~(m.k = "num" /\ m.d = 1)

\* ----------------------------------------------------------------- __main__
\* lines 461-464
MainGrowthRate(r) ==
    LET growth_rate_5y == RatioGet(r, KeyY("Revenue_CAGR", LOOKUP_YEARS))
    IN  IF IsNone(growth_rate_5y) \/ Le(growth_rate_5y, Num(0))
        THEN Fx(FALLBACK_GROWTH)
        ELSE growth_rate_5y

\* lines 467-469 falling back to the growth default instead of 0.09
MainWaccGrowthDefault(k_e) == IF IsNone(k_e) THEN Fx(FALLBACK_GROWTH) ELSE k_e

\* lines 467-469
MainWacc(k_e) == IF IsNone(k_e) THEN Fx(FALLBACK_WACC) ELSE k_e

\* ------------------------------------------------------------- the program
\* what a caller other than __main__ may pass
ApiYears == {-1 - MaxRows, -2, -1, 0, 1, 2, MAIN_YEARS, 2 * MaxRows}
ApiGrowthRates == {Fx(500)}
ApiWaccs == {Fx(100), Fx(200), Fx(1000)}
ApiTerminalGrowths == {Fx(TERMINAL_GROWTH_RATE), Fx(300)}

NoArgs == [called |-> FALSE, growth_rate |-> None, wacc |-> None,
           terminal_growth |-> None]

\* FundamentalAnalyzer.__init__
Init ==
    /\ mode \in {"main", "api"}
    /\ pc = "fetch"
    /\ overview = [ok |-> FALSE, f |-> BaseOverview]
    /\ income_statement = <<>>
    /\ balance_sheet = <<>>
    /\ cash_flow = <<>>
    /\ ratios = NoRatios
    /\ years_arg = 0
    /\ cost_of_equity = None
    /\ fscore_ret = None
    /\ dcf_args = NoArgs
    /\ dcf_ret = NotCalled
    /\ called = {}

\* where a method call leaves the caller
After(step) == IF mode = "main" THEN step ELSE "done"
At(step) == (mode = "main" /\ pc = step) \/ (mode = "api" /\ pc = "call")

\* fetch_all_data
FetchAllData ==
    /\ pc = "fetch"
    /\ \E profile \in {"strong", "weak"}, n \in 1..MaxRows :
         \E f \in Faults(n) :
            /\ WellFormed(f)
            /\ overview' = FetchOverview(f)
            /\ income_statement' = FetchTable(profile, "income", n, f)
            /\ balance_sheet' = FetchTable(profile, "balance", n, f)
            /\ cash_flow' = FetchTable(profile, "cash", n, f)
    /\ pc' = IF mode = "main" THEN "ratios" ELSE "call"
    /\ called' = called \cup {"fetch_all_data"}
    /\ UNCHANGED <<mode, ratios, years_arg, cost_of_equity, fscore_ret,
                   dcf_args, dcf_ret>>

\* analyzer.calculate_ratios()
CalculateRatios ==
    /\ At("ratios")
    /\ ratios' = calculate_ratios(overview, income_statement, balance_sheet, ratios)
    /\ pc' = After("fscore")
    /\ called' = called \cup {"calculate_ratios"}
    /\ UNCHANGED <<mode, overview, income_statement, balance_sheet, cash_flow,
                   years_arg, cost_of_equity, fscore_ret, dcf_args, dcf_ret>>

\* analyzer.calculate_piotroski_f_score()
CalculatePiotroskiFScore ==
    /\ At("fscore")
    /\ LET res == calculate_piotroski_f_score(income_statement, balance_sheet,
                                              cash_flow, ratios)
       IN  /\ ratios' = res.r
           /\ fscore_ret' = res.ret
    /\ pc' = After("growth")
    /\ called' = called \cup {"calculate_piotroski_f_score"}
    /\ UNCHANGED <<mode, overview, income_statement, balance_sheet, cash_flow,
                   years_arg, cost_of_equity, dcf_args, dcf_ret>>

\* analyzer.calculate_historical_growth(years)
CalculateHistoricalGrowth ==
    /\ At("growth")
    /\ \E years \in (IF mode = "main" THEN {MAIN_YEARS} ELSE ApiYears) :
         /\ years_arg' = years
         /\ ratios' = calculate_historical_growth(income_statement, years, ratios)
    /\ pc' = After("capm")
    /\ called' = called \cup {"calculate_historical_growth"}
    /\ UNCHANGED <<mode, overview, income_statement, balance_sheet, cash_flow,
                   cost_of_equity, fscore_ret, dcf_args, dcf_ret>>

\* cost_of_equity = analyzer.calculate_cost_of_equity_capm(...)
CalculateCostOfEquityCapm ==
    /\ At("capm")
    /\ LET res == calculate_cost_of_equity_capm(overview, Fx(RISK_FREE_RATE),
                                                Fx(EXPECTED_MARKET_RETURN), ratios)
       IN  /\ ratios' = res.r
           /\ cost_of_equity' = res.ret
    /\ pc' = After("display")
    /\ called' = called \cup {"calculate_cost_of_equity_capm"}
    /\ UNCHANGED <<mode, overview, income_statement, balance_sheet, cash_flow,
                   years_arg, fscore_ret, dcf_args, dcf_ret>>

\* analyzer.display_results(), line 456: an uncaught ValueError ends the script
DisplayResults ==
    /\ mode = "main" /\ pc = "display"
    /\ pc' = IF DisplayRaises(overview) THEN "crashed" ELSE "dcf"
    /\ called' = called \cup {"display_results"}
    /\ UNCHANGED <<mode, overview, income_statement, balance_sheet, cash_flow,
                   ratios, years_arg, cost_of_equity, fscore_ret, dcf_args, dcf_ret>>

\* analyzer.run_simple_dcf(...): main passes lines 461-475, a caller anything
RunSimpleDcf ==
    /\ At("dcf")
    /\ \E g \in (IF mode = "main" THEN {MainGrowthRate(ratios)} ELSE ApiGrowthRates),
          w \in (IF mode = "main" THEN {MainWacc(cost_of_equity)} ELSE ApiWaccs),
          t \in (IF mode = "main" THEN {Fx(TERMINAL_GROWTH_RATE)}
                 ELSE ApiTerminalGrowths) :
         /\ dcf_args' = [called |-> TRUE, growth_rate |-> g, wacc |-> w,
                         terminal_growth |-> t]
         /\ dcf_ret' = run_simple_dcf(overview, balance_sheet, cash_flow, g, w, t)
    /\ pc' = "done"
    /\ called' = called \cup {"run_simple_dcf"}
    /\ UNCHANGED <<mode, overview, income_statement, balance_sheet, cash_flow,
                   ratios, years_arg, cost_of_equity, fscore_ret>>

Next ==
    \/ FetchAllData
    \/ CalculateRatios
    \/ CalculatePiotroskiFScore
    \/ CalculateHistoricalGrowth
    \/ CalculateCostOfEquityCapm
    \/ DisplayResults
    \/ RunSimpleDcf

Spec == Init /\ [][Next]_vars

\* ================================================================ claims
Ran(method) == method \in called
FScoreKey == Key("Piotroski_F_Score")
PreconditionsMet ==
    Len(income_statement) >= 3 /\ Len(balance_sheet) >= 3 /\ Len(cash_flow) >= 1

\* the columns the F-Score reads are all in the fetched tables
FScoreColumnsPresent ==
    /\ \A i \in 1..Len(income_statement) :
          IncomeCols \subseteq DOMAIN income_statement[i]
    /\ \A i \in 1..Len(balance_sheet) :
          {"totalAssets", "longTermDebt", "totalCurrentAssets",
           "totalCurrentLiabilities", "commonStock"}
             \subseteq DOMAIN balance_sheet[i]
    /\ \A i \in 1..Len(cash_flow) :
          "operatingCashflow" \in DOMAIN cash_flow[i]

\* C1: a recorded Piotroski_F_Score is an integer in 0..9 and is recorded
\* only with at least 3 income rows, 3 balance-sheet rows and 1 cash-flow
\* row; with those rows and every column fetched the call records and
\* returns it; without them the call records nothing and returns None.
C1_ScoreIsIntegerInRange ==
    /\ Has(ratios, FScoreKey) =>
          /\ PreconditionsMet
          /\ ratios[FScoreKey].k = "num"
          /\ ratios[FScoreKey].d = 1
          /\ ratios[FScoreKey].n \in 0..9
    /\ Ran("calculate_piotroski_f_score") /\ PreconditionsMet
       /\ FScoreColumnsPresent =>
          Has(ratios, FScoreKey) /\ fscore_ret = ratios[FScoreKey]
    /\ Ran("calculate_piotroski_f_score") /\ ~PreconditionsMet =>
          ~Has(ratios, FScoreKey) /\ fscore_ret = None

\* a score strictly between the extremes has been recorded from tables in
\* which a cell is an unparsable entry
C1_Witness ==
    /\ Ran("calculate_piotroski_f_score")
    /\ PreconditionsMet
    /\ Has(ratios, FScoreKey)
    /\ ratios[FScoreKey].n \in 1..8
    /\ \E c \in BalanceCols : Get(Last(balance_sheet, 1), c) = NaN

\* ---- the nine tests as the specification lists them
Cell(table, j, col) == Get(Last(table, j), col)
NI(j) == Cell(income_statement, j, "netIncome")
REV(j) == Cell(income_statement, j, "totalRevenue")
GP(j) == Cell(income_statement, j, "grossProfit")
TA(j) == Cell(balance_sheet, j, "totalAssets")
LTD(j) == Cell(balance_sheet, j, "longTermDebt")
CA(j) == Cell(balance_sheet, j, "totalCurrentAssets")
CL(j) == Cell(balance_sheet, j, "totalCurrentLiabilities")
CS(j) == Cell(balance_sheet, j, "commonStock")
OCF == Cell(cash_flow, 1, "operatingCashflow")
AvgTA(j) == Div(Add(TA(j), TA(j + 1)), Num(2))

FScoreOperands ==
    {NI(1), NI(2), REV(1), REV(2), GP(1), GP(2), TA(1), TA(2), TA(3),
     LTD(1), LTD(2), CA(1), CA(2), CL(1), CL(2), CS(1), CS(2), OCF}

OperandsPresent == \A v \in FScoreOperands : v.k = "num"
DenominatorsNonZero ==
    \A v \in {TA(1), TA(2), CL(1), CL(2), REV(1), REV(2), AvgTA(1), AvgTA(2)} :
        v.n # 0

One(b) == IF b THEN 1 ELSE 0
TestsThatHold ==
      One(Gt(NI(1), Num(0)))
    + One(Gt(OCF, Num(0)))
    + One(Gt(AvgTA(1), Num(0)) /\ Gt(AvgTA(2), Num(0))
          /\ Gt(Div(NI(1), AvgTA(1)), Div(NI(2), AvgTA(2))))
    + One(Gt(OCF, NI(1)))
    + One(Lt(Div(LTD(1), TA(1)), Div(LTD(2), TA(2))))
    + One(Gt(Div(CA(1), CL(1)), Div(CA(2), CL(2))))
    + One(Le(CS(1), CS(2)))
    + One(Gt(Div(GP(1), REV(1)), Div(GP(2), REV(2))))
    + One(Gt(Div(REV(1), AvgTA(1)), Div(REV(2), AvgTA(2))))

\* C2: with the preconditions met, every operand present and no zero
\* denominator, the recorded score is the number of the nine listed tests
\* that hold (test 4 being exactly operating cash flow > net income).
C2_ScoreCountsTheNineTests ==
    Ran("calculate_piotroski_f_score") /\ PreconditionsMet
    /\ OperandsPresent /\ DenominatorsNonZero
    => /\ Has(ratios, FScoreKey)
       /\ ratios[FScoreKey] = Num(TestsThatHold)

\* C3: with the preconditions met a score is always recorded, whatever
\* operand is missing: a missing operand only costs its test the point.
C3_MissingOperandKeepsTheScore ==
    Ran("calculate_piotroski_f_score") /\ PreconditionsMet
    => Has(ratios, FScoreKey)

\* ---- calculate_ratios
RatiosInputsFetched ==
    overview.ok /\ income_statement # <<>> /\ balance_sheet # <<>>
ValuationKeys == {OverviewRatios[i][1] : i \in 1..Len(OverviewRatios)}
RatioName(key) ==
    (CHOOSE i \in 1..Len(OverviewRatios) : OverviewRatios[i][1] = key)
RatioKey(key) == Key(OverviewRatios[RatioName(key)][2])
\* the overview field is absent, 'N/A' or not a number
Malformed(key) == GetD(overview.f, key, NA).k # "num"
Present(v) == v.k = "num"
LatestNI == Cell(income_statement, 1, "netIncome")
LatestREV == Cell(income_statement, 1, "totalRevenue")
LatestEquity == Cell(balance_sheet, 1, "totalShareholderEquity")
LatestLTD == Cell(balance_sheet, 1, "longTermDebt")
LatestSTD == Cell(balance_sheet, 1, "shortTermDebt")
MarginKey == Key("Net_Profit_Margin")
DebtKey == Key("Debt_to_Equity")

\* C4: with exactly one of the four overview fields absent, 'N/A' or
\* non-numeric, calculate_ratios still records every other valuation ratio
\* and the net profit margin of a latest row with non-zero operands.
C4_OneBadFieldDegradesOneRatio ==
    Ran("calculate_ratios") /\ RatiosInputsFetched
    /\ Cardinality({key \in ValuationKeys : Malformed(key)}) = 1
    => /\ \A key \in ValuationKeys :
            ~Malformed(key) => Has(ratios, RatioKey(key))
       /\ (Present(LatestNI) /\ Present(LatestREV)
           /\ LatestNI.n # 0 /\ LatestREV.n # 0) => Has(ratios, MarginKey)

\* ---- run_simple_dcf
DcfStatementsValid ==
    /\ overview.ok /\ balance_sheet # <<>> /\ cash_flow # <<>>
    /\ Present(Cell(cash_flow, 1, "operatingCashflow"))
    /\ Present(Cell(cash_flow, 1, "capitalExpenditures"))
    /\ \A c \in {"longTermDebt", "shortTermDebt",
                 "cashAndCashEquivalentsAtCarryingValue"} :
          Present(Cell(balance_sheet, 1, c))
Shares == Get(overview.f, "SharesOutstanding")
SharesValid == Shares.k = "num" /\ Shares.d = 1 /\ Shares.n # 0
SharesMissingOrZero == IsNone(Shares) \/ (Shares.k = "num" /\ Shares.n = 0)

\* C5: a run_simple_dcf call with valid inputs and discount rate <= terminal
\* growth reports no result.
C5_NoResultUnlessDiscountAboveTerminal ==
    Ran("run_simple_dcf") /\ DcfStatementsValid /\ SharesValid
    /\ Le(dcf_args.wacc, dcf_args.terminal_growth)
    => dcf_ret.ret = "None"

\* C6: in __main__, with at least two income rows, a positive revenue CAGR
\* recorded for the window min(5, rows - 1) is the growth rate handed to
\* run_simple_dcf, and a returned cost of equity is the discount rate handed
\* to it.
C6_DcfConsumesGrowthAndCapm ==
    mode = "main" /\ Ran("run_simple_dcf") /\ Len(income_statement) >= 2
    => LET window == Min(MAIN_YEARS, Len(income_statement) - 1)
           cagr == RatioGet(ratios, KeyY("Revenue_CAGR", window))
       IN  /\ (cagr.k = "num" /\ cagr.n > 0) => dcf_args.growth_rate = cagr
           /\ ~IsNone(cost_of_equity) => dcf_args.wacc = cost_of_equity

C8_MarginRecordedIffDefined ==
    Ran("calculate_ratios") /\ RatiosInputsFetched
    /\ (\A key \in ValuationKeys : ~Malformed(key))
    => /\ Has(ratios, MarginKey)
          <=> (Present(LatestNI) /\ Present(LatestREV) /\ LatestREV.n # 0)
       /\ Has(ratios, MarginKey) =>
             /\ IsFinite(ratios[MarginKey])
             /\ Eq(ratios[MarginKey], Div(LatestNI, LatestREV))

\* C9: with the overview ratios parsed, Debt_to_Equity is recorded exactly
\* when equity is present and not zero and at least one debt field is
\* present; it is then (longTermDebt + shortTermDebt) / equity with a missing
\* debt field counted as zero, the value 0 included, and never NaN.
DebtOrZero(v) == IF Present(v) THEN v ELSE Num(0)
C9_DebtToEquityDistinguishesZeroFromAbsent ==
    Ran("calculate_ratios") /\ RatiosInputsFetched
    /\ (\A key \in ValuationKeys : ~Malformed(key))
    => /\ Has(ratios, DebtKey)
          <=> /\ Present(LatestEquity) /\ LatestEquity.n # 0
              /\ (Present(LatestLTD) \/ Present(LatestSTD))
       /\ Has(ratios, DebtKey) =>
             Eq(ratios[DebtKey],
                Div(Add(DebtOrZero(LatestLTD), DebtOrZero(LatestSTD)),
                    LatestEquity))

\* C10: whatever lookback calculate_historical_growth is given, a growth
\* metric it records for a window of zero or fewer periods, or from a start
\* value that is not positive, is unavailable (None), never a number.
GrowthKeys == {key \in DOMAIN ratios : key.name \in {"Revenue_CAGR", "Net_Income_CAGR"}}
StartValue(key) ==
    Get(income_statement[StartRow(income_statement, key.n)],
        IF key.name = "Revenue_CAGR" THEN "totalRevenue" ELSE "netIncome")
C10_CagrOnlyForPositiveStartAndPeriods ==
    Ran("calculate_historical_growth")
    => \A key \in GrowthKeys :
          (key.n <= 0 \/ ~Gt(StartValue(key), Num(0))) => IsNone(ratios[key])

\* C11: when the overview has no Beta, or Beta is 'N/A' or does not parse as
\* a number, calculate_cost_of_equity_capm returns None and records no
\* Cost_of_Equity (CAPM); otherwise it records and returns
\* risk_free_rate + beta * (market_return - risk_free_rate). In __main__,
\* after such a miss, the pipeline reaches run_simple_dcf unless
\* display_results raised, the discount rate passed is the 0.09 fallback, and
\* the DCF reports its three finite values whenever its statements and
\* SharesOutstanding are valid.
CapmKey == Key("Cost_of_Equity (CAPM)")
BetaStr == Get(overview.f, "Beta")
BetaUnavailable == ~overview.ok \/ BetaStr.k \in {"none", "na", "text"}
MarketPremium == EXPECTED_MARKET_RETURN - RISK_FREE_RATE
ExpectedCostOfEquity ==
    IF BetaStr.k = "nan" THEN NaN
    ELSE Fx(RISK_FREE_RATE + ((BetaStr.n * MarketPremium) \div Scale))
DcfSucceeded ==
    /\ dcf_ret.ret = "dict"
    /\ IsFinite(dcf_ret.enterprise_value)
    /\ IsFinite(dcf_ret.equity_value)
    /\ IsFinite(dcf_ret.implied_share_price)
C11_MissingBetaFallsBackToSuppliedRate ==
    /\ Ran("calculate_cost_of_equity_capm") /\ BetaUnavailable =>
          cost_of_equity = None /\ ~Has(ratios, CapmKey)
    /\ Ran("calculate_cost_of_equity_capm") /\ ~BetaUnavailable =>
          /\ cost_of_equity = ExpectedCostOfEquity
          /\ Has(ratios, CapmKey) /\ ratios[CapmKey] = cost_of_equity
    /\ mode = "main" /\ BetaUnavailable /\ Ran("display_results") =>
          /\ pc = "crashed" <=> DisplayRaises(overview)
          /\ pc = "done" <=> Ran("run_simple_dcf")
    /\ mode = "main" /\ BetaUnavailable /\ Ran("run_simple_dcf") =>
          /\ dcf_args.wacc = Fx(FALLBACK_WACC)
          /\ dcf_args.terminal_growth = Fx(TERMINAL_GROWTH_RATE)
          /\ DcfStatementsValid /\ SharesValid => DcfSucceeded

\* a run of __main__ on a company whose overview lacks a usable Beta: the DCF
\* ran on the fallback rate and reported its three values
C11_Witness ==
    /\ mode = "main" /\ pc = "done"
    /\ overview.ok /\ BetaStr.k \in {"none", "na", "text"}
    /\ cost_of_equity = None /\ ~Has(ratios, CapmKey)
    /\ dcf_args.wacc = Fx(FALLBACK_WACC)
    /\ DcfStatementsValid /\ SharesValid /\ DcfSucceeded

====
